---- MODULE Spec2Model ----
(***************************************************************************)
(* Loyalty-points redemption of the BillFree Shopify app.                  *)
(*                                                                         *)
(* Two delivery paths are modelled:                                        *)
(*   - the checkout discount function cartLinesDiscountsGenerateRun, which *)
(*     calls the app's points endpoint and the app's redeem proxy, and     *)
(*   - the interactive routes (redeem-points, verify-otp), which call the  *)
(*     loyalty provider and create a discount code on the platform.        *)
(*                                                                         *)
(* Money is counted in sub-units of a cent (SubUnits per cent), so that    *)
(* Number.prototype.toFixed(2) is a real rounding and not the identity.    *)
(* Amounts coming out of toFixed(2) are counted in cents.                  *)
(***************************************************************************)
EXTENDS Integers, Sequences, FiniteSets, TLC

\* ---------------------------------------------------------------- bounds
MaxAttempts == 2      \* redemption attempts that may be in flight together
MaxClock    == 1      \* Date.now() ranges over 0..MaxClock
MaxAmt      == 6      \* largest money value, in sub-units
SubUnits    == 4      \* sub-units per cent (resolution below toFixed(2))
MaxCustomer == 2      \* customers 1..MaxCustomer
MaxRandom   == 2      \* Math.random() code suffixes 1..MaxRandom

Attempts  == 1..MaxAttempts
Customers == 1..MaxCustomer

\* A JSON field that is absent (undefined) or null.
Missing == 0 - 1000

\* The shop whose stored session the model follows, and another shop the app
\* is installed on and fully configured for; any other domain has no session.
ShopDomain == "shop.myshopify.com"
OtherShop  == "other.myshopify.com"
Shops      == {ShopDomain, OtherShop}

VARIABLES
  now,        \* Date.now()
  config,     \* stored session of ShopDomain: is BillFree configured with tokens
  acct,       \* provider ledger: the loyalty account the attempts address
  pc,         \* per attempt: where the handler chain stands
  req,        \* per attempt: the request / function input
  loc,        \* per attempt: locals of the handler that survive an await
  pts,        \* per attempt: response of the points endpoint, as the function got it
  resp,       \* per attempt: response of the redeem proxy, as the function got it
  redeemLog,  \* provider side: sequence of redeem calls received, <<attempt, inv_no>>
  codes,      \* platform side: discount codes created
  result,     \* per attempt: what the handler returned
  widget,     \* React state of the account widget (OrderStatusBlock.tsx)
  flow        \* one request to the Flow action handler (flow-action.handle.ts)

vars == <<now, config, acct, pc, req, loc, pts, resp, redeemLog, codes, result, widget, flow>>

\* ------------------------------------------------------- JavaScript helpers

\* x || 0 on a number or an absent field
OrZero(x) == IF x = Missing \/ x = 0 THEN 0 ELSE x

\* !x on a number or an absent field
Falsy(x) == x = Missing \/ x = 0

\* Math.min(a, b)
MathMin(a, b) == IF a <= b THEN a ELSE b

\* x.toFixed(2): the decimal with two fraction digits nearest to x, in cents.
\* At an exact decimal tie the digit depends on the binary double that stands
\* for x (1.005.toFixed(2) is "1.00", 1.015.toFixed(2) is "1.02"), so both
\* neighbours are possible results.
ToFixed2Abs(x) ==
  LET q == x \div SubUnits
      r == x % SubUnits
  IN  IF 2 * r < SubUnits THEN {q}
      ELSE IF 2 * r > SubUnits THEN {q + 1}
      ELSE {q, q + 1}

ToFixed2(x) == IF x >= 0 THEN ToFixed2Abs(x) ELSE {0 - c : c \in ToFixed2Abs(0 - x)}

\* customer.id as a GID, and gid.split('/').pop()
Gid(c) == <<"gid://shopify/Customer", c>>
GidTail(g) == g[2]

\* ------------------------------------------------------------ environment

\* Loyalty accounts at the provider: the OTP flag and whether points are left.
Profiles == [otp : {"y", "n"}, hasPoints : BOOLEAN]

\* What the provider's balance can look like in a points response.
BalanceVals(p) == IF p.hasPoints THEN {1} ELSE {Missing, 0 - 1, 0}

\* What the provider's redeem answer can carry as maxRedeemableAmt: nothing
\* redeemable for an account without points, else any amount, an absent or a
\* negative one included.
RedeemVals(p) == IF p.hasPoints THEN {Missing, 0 - 1} \cup (0..MaxAmt) ELSE {Missing, 0}

\* Response of the app's points endpoint as the discount function sees it:
\* fetch rejects, a non-2xx status, or a JSON body. Without a phone number the
\* endpoint answers balance 0 and otpFlag "y" whatever the account says.
PointsResponses(p) ==
  {[kind |-> "throw", status |-> 0, err |-> FALSE, balance |-> 0, phone |-> FALSE, otpFlag |-> "n"]}
  \cup [kind : {"http"}, status : {400, 500}, err : {TRUE}, balance : {0}, phone : {FALSE}, otpFlag : {"n"}]
  \cup [kind : {"json"}, status : {200}, err : BOOLEAN, balance : BalanceVals(p), phone : BOOLEAN,
         otpFlag : {p.otp}]
  \cup [kind : {"json"}, status : {200}, err : {TRUE}, balance : {0}, phone : {FALSE}, otpFlag : {"y"}]

\* Answer of the provider to a redeem call: the call fails, a non-2xx status,
\* or a JSON body with the provider's error flag and maxRedeemableAmt.
ProviderRedeemResponses(p) ==
  {[kind |-> k, error |-> FALSE, amt |-> 0] : k \in {"throw", "http"}}
  \cup [kind : {"json"}, error : BOOLEAN, amt : RedeemVals(p)]

NoReq  == [route |-> "none", variant |-> 0, customer |-> 0, urlMf |-> FALSE, shopSrc |-> "none",
           S |-> 0, otp |-> "none", auth |-> FALSE, phone |-> FALSE, shop |-> "none", sub |-> 0]
NoLoc  == [invNo |-> <<>>, billAmt |-> 0, code |-> <<>>, R |-> 0, votp |-> "none",
           phone |-> "unknown", asked |-> FALSE, platform |-> "none", cotp |-> "none",
           balanceCall |-> "none"]
NoPts  == [kind |-> "none", status |-> 0, err |-> FALSE, balance |-> 0, phone |-> FALSE, otpFlag |-> "n"]
NoResp == [kind |-> "none", err |-> FALSE, dvr |-> 0]
NoResult == [status |-> 0, msg |-> "none", ops |-> <<>>, code |-> <<>>, amount |-> 0,
             userErrors |-> FALSE]

\* ------------------------------------------- checkout discount function

\* { operations: [] }
EmptyOps(why) == [status |-> 0, msg |-> why, ops |-> <<>>, code |-> <<>>, amount |-> 0,
                  userErrors |-> FALSE]

\* A result whose candidate applies the amount to each line item.
DiscountOpsPerLineItem(cents) ==
  [status |-> 0, msg |-> "Discount", code |-> <<>>, amount |-> cents, userErrors |-> FALSE,
   ops |-> << [orderDiscountsAdd |->
                 [candidates |-> << [value |-> [fixedAmount |-> [amount |-> cents,
                                                                  appliesToEachLineItem |-> TRUE]],
                                     targets |-> << [orderSubtotal |-> [excludedCartLineIds |-> <<>>]] >>] >>,
                  selectionStrategy |-> "First"]] >>]

\* { operations: [{ orderDiscountsAdd: { candidates: [...], selectionStrategy: First } }] }
DiscountOps(cents) ==
  [status |-> 0, msg |-> "Discount", code |-> <<>>, amount |-> cents, userErrors |-> FALSE,
   ops |-> << [orderDiscountsAdd |->
                 [candidates |-> << [value |-> [fixedAmount |-> [amount |-> cents,
                                                                  appliesToEachLineItem |-> FALSE]],
                                     targets |-> << [orderSubtotal |-> [excludedCartLineIds |-> <<>>]] >>] >>,
                  selectionStrategy |-> "First"]] >>]

\* shop_domain query parameter the function sends to the redeem proxy.
\* Variant 1 sends none; variant 2 sends the shop metafield, else the second
\* discount class, else the text "undefined".
FnShopDomain(r) ==
  IF r.variant = 1 THEN "null"
  ELSE IF r.shopSrc = "metafield" THEN ShopDomain
  ELSE IF r.shopSrc = "classes" THEN "PRODUCT"
  ELSE "undefined"


\* Mutant: the error field of the points body is not looked at.
FnPointsFailedIgnoresErrorField(r) == r.kind \in {"throw", "http"}

\* fetch rejected, !getPointsResponse.ok, or pointsData.error set
FnPointsFailed(r) == r.kind \in {"throw", "http"} \/ r.err


\* Mutant: a balance of exactly zero passes the eligibility test.
NoEligiblePointsStrict(phone, availablePoints) == ~phone \/ availablePoints < 0

\* if (!customerMobileNumber || availablePoints <= 0)
NoEligiblePoints(phone, availablePoints) == ~phone \/ availablePoints <= 0


\* Mutant: the OTP check of the checkout function is left out.
OtpBlocksCheckoutNever(otpFlag) == FALSE

\* if (otpRequired) return { operations: [] }
OtpBlocksCheckout(otpFlag) == otpFlag = "y"

\* const inv_no = `CHECKOUT_AUTO_${customer.id}_${Date.now()}`
FnInvNo(c, t) == <<"CHECKOUT_AUTO", Gid(c), t>>


\* Mutant: the redeemed value is not capped by the cart subtotal.
FinalDiscountAmountUncapped(dvr, subtotal) == OrZero(dvr)

\* Math.min(discountValueRupees, cartSubtotal)
FinalDiscountAmount(dvr, subtotal) == MathMin(OrZero(dvr), subtotal)

FnStart(a) ==
  /\ pc[a] = "idle"
  /\ \E v \in {1, 2}, c \in {0} \cup Customers, url \in BOOLEAN,
        shop \in {"metafield", "classes", "none"}, s \in 0..MaxAmt :
       /\ v = 1 => shop = "none"
       /\ req' = [req EXCEPT ![a] = [route |-> "checkout", variant |-> v, customer |-> c,
                                     urlMf |-> url, shopSrc |-> shop, S |-> s,
                                     otp |-> "none", auth |-> FALSE, phone |-> FALSE,
                                     shop |-> ShopDomain, sub |-> 0]]
       /\ IF c = 0
            THEN /\ pc' = [pc EXCEPT ![a] = "done"]
                 /\ result' = [result EXCEPT ![a] = EmptyOps("NoCustomer")]
          ELSE IF ~url
            THEN /\ pc' = [pc EXCEPT ![a] = "done"]
                 /\ result' = [result EXCEPT ![a] = EmptyOps("NotConfigured")]
          ELSE /\ pc' = [pc EXCEPT ![a] = "fn_points"]
               /\ UNCHANGED result
  /\ UNCHANGED <<now, config, acct, loc, pts, resp, redeemLog, codes, widget, flow>>

\* Lines 51-95 / 238-282: the points response r is handled and, when the
\* customer is eligible, the redeem request is built and sent.
FnHandlePoints(a, r) ==
       /\ pts' = [pts EXCEPT ![a] = r]
       /\ LET why == IF FnPointsFailed(r)
                       THEN (IF r.kind = "json" THEN "ProviderRejected" ELSE "ProviderUnavailable")
                     ELSE IF NoEligiblePoints(r.phone, OrZero(r.balance)) THEN "NoBalance"
                     ELSE IF OtpBlocksCheckout(r.otpFlag) THEN "OtpRequired"
                     ELSE "go"
          IN IF why # "go"
               THEN /\ pc' = [pc EXCEPT ![a] = "done"]
                    /\ result' = [result EXCEPT ![a] = EmptyOps(why)]
                    /\ UNCHANGED loc
               ELSE /\ \E b \in ToFixed2(req[a].S) :
                         loc' = [loc EXCEPT ![a] = [@ EXCEPT !.invNo = FnInvNo(req[a].customer, now),
                                                             !.billAmt = b]]
                    /\ pc' = [pc EXCEPT ![a] = "fn_redeem"]
                    /\ UNCHANGED result

\* The points request returns from whatever server the proxy base URL names.
FnPointsReturn(a) ==
  /\ pc[a] = "fn_points"
  /\ \E r \in PointsResponses(acct) : FnHandlePoints(a, r)
  /\ UNCHANGED <<now, config, acct, req, resp, redeemLog, codes, widget, flow>>

\* ---------------------------------------------- redeem proxy of the app

\* db.session.findUnique({ where: { id: `offline_${shopDomain}` } })
\* A lookup that rewrites the stored session as fully configured.
SessionAfterUpsert(stored) == "ok"

\* The stored session after db.session.findUnique({ where, select }): a read.
SessionAfterFindUnique(stored) == stored

FindSession(domain) ==
  IF domain = ShopDomain THEN config
  ELSE IF domain = OtherShop THEN "ok"
  ELSE "absent"

\* if (!shopSession || !shopSession.isBillFreeConfigured ||
\*     !shopSession.billFreeAuthToken || !shopSession.accessToken)
NotFullyConfigured(session) == session # "ok"

\* What the proxy answers for one answer of the provider (lines 348-377).
ProxyRedeemAnswer(pr) ==
  IF pr.kind = "throw" THEN [kind |-> "http", err |-> TRUE, dvr |-> 0]
  ELSE IF pr.kind = "http" THEN [kind |-> "http", err |-> TRUE, dvr |-> 0]
  ELSE IF pr.error THEN [kind |-> "http", err |-> TRUE, dvr |-> 0]
  ELSE [kind |-> "json", err |-> FALSE, dvr |-> OrZero(pr.amt)]

\* The provider redeem calls the proxy sends for one request, given the
\* provider's answer to the first: one fetch, no loop around it.
ProxyRedeemCalls(call, pr) == <<call>>

\* POST /api/loyalty/redeem?shop_domain=..., called by the discount function.
RedeemProxy(a) ==
  /\ pc[a] = "fn_redeem"
  /\ LET domain == FnShopDomain(req[a]) IN
     IF domain = "null"
       THEN /\ resp' = [resp EXCEPT ![a] = [kind |-> "http", err |-> TRUE, dvr |-> 0]]
            /\ UNCHANGED redeemLog
     ELSE IF NotFullyConfigured(FindSession(domain))
       THEN /\ resp' = [resp EXCEPT ![a] = [kind |-> "http", err |-> FALSE, dvr |-> 0]]
            /\ UNCHANGED redeemLog
     ELSE \E pr \in ProviderRedeemResponses(acct) :
            /\ redeemLog' = redeemLog \o ProxyRedeemCalls(<<a, loc[a].invNo>>, pr)
            /\ resp' = [resp EXCEPT ![a] = ProxyRedeemAnswer(pr)]
  /\ pc' = [pc EXCEPT ![a] = "fn_redeem_resp"]
  /\ config' = SessionAfterFindUnique(config)
  /\ UNCHANGED <<now, acct, req, loc, pts, codes, result, widget, flow>>

\* Lines 111-163 / 298-350: the redeem response is handled and the operations
\* are returned.
FnRedeemReturn(a) ==
  /\ pc[a] = "fn_redeem_resp"
  /\ LET r == resp[a]
         final == FinalDiscountAmount(r.dvr, req[a].S)
     IN  IF r.kind = "http"
           THEN result' = [result EXCEPT ![a] = EmptyOps("ProviderUnavailable")]
         ELSE IF r.err
           THEN result' = [result EXCEPT ![a] = EmptyOps("ProviderRejected")]
         ELSE IF final > 0
           THEN \E cents \in ToFixed2(final) :
                  result' = [result EXCEPT ![a] = DiscountOps(cents)]
         ELSE result' = [result EXCEPT ![a] = EmptyOps("ZeroDiscount")]
  /\ pc' = [pc EXCEPT ![a] = "done"]
  /\ UNCHANGED <<now, config, acct, req, loc, pts, resp, redeemLog, codes, widget, flow>>

\* fetch of the redeem proxy rejects (network failure, timeout): the catch
\* block returns no operations, whether or not the proxy handled the request.
FnRedeemThrow(a) ==
  /\ pc[a] \in {"fn_redeem", "fn_redeem_resp"}
  /\ pc' = [pc EXCEPT ![a] = "done"]
  /\ resp' = [resp EXCEPT ![a] = [kind |-> "throw", err |-> FALSE, dvr |-> 0]]
  /\ result' = [result EXCEPT ![a] = EmptyOps("ProviderUnavailable")]
  /\ UNCHANGED <<now, config, acct, req, loc, pts, redeemLog, codes, widget, flow>>

\* ------------------------------------------- interactive: POST redeem-points

\* json({ error: ... }, { status }) and the success body
\* userErrors: whether the body carries the platform's validation errors.
Reply(status, msg) ==
  [status |-> status, msg |-> msg, ops |-> <<>>, code |-> <<>>, amount |-> 0,
   userErrors |-> FALSE]

Success(msg, code, amount) ==
  [status |-> 200, msg |-> msg, ops |-> <<>>, code |-> code, amount |-> amount,
   userErrors |-> FALSE]

\* Answer of the provider to a verify-OTP call. A wrong code is answered with
\* the error flag set (or not answered); a right code may still be refused.
VerifyResponses(otp) ==
  {[kind |-> k, error |-> FALSE] : k \in {"throw", "http"}}
  \cup [kind : {"json"}, error : IF otp = "right" THEN BOOLEAN ELSE {TRUE}]

\* Answer of the platform to the discount-creation mutation.
PlatformAnswers == {"throw", "noBody", "noData", "userErrors", "created"}

\* The platform keeps the codes of a shop unique: a code the shop already has
\* is not created a second time.
PlatformAnswersTo(shop, code) ==
  IF \E k \in codes : k.shop = shop /\ k.code = code
    THEN PlatformAnswers \ {"created"}
    ELSE PlatformAnswers

\* if (discountResult?.userErrors?.length > 0)
RpUserErrors(answer) == answer = "userErrors"

\* if (!shopSession?.isBillFreeConfigured || !shopSession.billFreeAuthToken || !shopSession.accessToken)
RpNotConfigured(session) == session # "ok"

\* inv_no: `LOYALTY_${customer_id.split('/').pop()}_${Date.now()}`
RpInvNo(c, t) == <<"LOYALTY", GidTail(Gid(c)), t>>

\* const discountCode = `BILLFREE${Date.now()}`
RpDiscountCode(t) == <<"BILLFREE", t>>


\* Mutant: the redeem call is sent without waiting for an OTP verification.
RpVerifiesOtpNever(otp) == FALSE

\* if (otp_code) { ...verify... }: is the OTP verification call made
RpVerifiesOtp(otp) == otp # "none"

\* const discountAmount = redeemData.maxRedeemableAmt
RpDiscountAmount(amt, bill) == amt


\* if (otpData.error) return 400 "Invalid OTP."
RpOtpRefused(vr) == vr.error


\* Mutant: a redeem call that fails is sent a second time.
RpRedeemCallsRetry(call, pr) == IF pr.kind = "json" THEN <<call>> ELSE <<call, call>>

\* The provider redeem calls sent for one request, given the provider's answer
\* to the first: one fetch, no loop around it.
RpRedeemCalls(call, pr) == <<call>>


\* Mutant: the code is created without a usage limit and for every customer.
RpCodeDiscountReusable(a, code, cents, customerId) ==
  [att |-> a, route |-> "redeem-points", code |-> code, amount |-> cents,
   usageLimit |-> 0, appliesOncePerCustomer |-> FALSE,
   customers |-> {Gid(c) : c \in Customers}, shop |-> req[a].shop]

\* variables.codeDiscount of the discountCodeAppCreate mutation
RpCodeDiscount(a, code, cents, customerId) ==
  [att |-> a, route |-> "redeem-points", code |-> code, amount |-> cents,
   usageLimit |-> 1, appliesOncePerCustomer |-> TRUE, customers |-> {customerId},
   shop |-> req[a].shop]


\* Mutant: a customer without a phone number is let through.
RpNoPhoneIgnored(answer) == FALSE

\* if (!customerData?.phone) return 400 "Customer phone number not found."
RpNoPhone(answer) == answer = "noPhone"

\* Lines 24-102: method, token, payload and configuration checks, then the
\* customer query is sent. The body is not read before the token is accepted.
RpStart(a) ==
  /\ pc[a] = "idle"
  /\ \E auth \in BOOLEAN, shop \in Shops, sub \in {0} \cup Customers, c \in {0} \cup Customers,
        bill \in {Missing} \cup (0..MaxAmt), otp \in {"none", "right", "wrong"} :
       /\ ~auth => (c = 0 /\ bill = Missing /\ otp = "none" /\ shop = ShopDomain)
       /\ auth <=> sub # 0
       /\ req' = [req EXCEPT ![a] = [route |-> "redeem-points", variant |-> 0, customer |-> c,
                                     urlMf |-> FALSE, shopSrc |-> "none", S |-> bill,
                                     otp |-> otp, auth |-> auth, phone |-> FALSE,
                                     shop |-> shop, sub |-> sub]]
       /\ LET out == IF ~auth THEN Reply(401, "Unauthorized")
                     ELSE IF c = 0 \/ bill = Missing THEN Reply(400, "MissingParameters")
                     ELSE IF RpNotConfigured(FindSession(shop)) THEN Reply(400, "NotConfigured")
                     ELSE NoResult
          IN IF out # NoResult
               THEN /\ pc' = [pc EXCEPT ![a] = "done"]
                    /\ result' = [result EXCEPT ![a] = out]
               ELSE /\ pc' = [pc EXCEPT ![a] = "rp_customer"]
                    /\ UNCHANGED result
  /\ config' = SessionAfterFindUnique(config)
  /\ UNCHANGED <<now, acct, loc, pts, resp, redeemLog, codes, widget, flow>>

\* Lines 97-141: the customer query returns; without a phone the request ends,
\* with an otp_code the verify call is sent, else the redeem call is sent.
RpCustomer(a) ==
  /\ pc[a] = "rp_customer"
  /\ \E answer \in {"throw", "noPhone", "phone"} :
       IF answer = "throw"
         THEN /\ pc' = [pc EXCEPT ![a] = "done"]
              /\ result' = [result EXCEPT ![a] = Reply(500, "Exception")]
              /\ loc' = [loc EXCEPT ![a] = [@ EXCEPT !.phone = "failed"]]
       ELSE IF RpNoPhone(answer)
         THEN /\ pc' = [pc EXCEPT ![a] = "done"]
              /\ result' = [result EXCEPT ![a] = Reply(400, "MissingPhone")]
              /\ loc' = [loc EXCEPT ![a] = [@ EXCEPT !.phone = "none"]]
       ELSE IF RpVerifiesOtp(req[a].otp)
         THEN /\ pc' = [pc EXCEPT ![a] = "rp_votp"]
              /\ loc' = [loc EXCEPT ![a] = [@ EXCEPT !.phone = IF answer = "phone" THEN "found" ELSE "none"]]
              /\ UNCHANGED result
       ELSE /\ pc' = [pc EXCEPT ![a] = "rp_redeem"]
            /\ loc' = [loc EXCEPT ![a] = [@ EXCEPT !.invNo = RpInvNo(req[a].customer, now),
                                                   !.phone = IF answer = "phone" THEN "found" ELSE "none"]]
            /\ UNCHANGED result
  /\ UNCHANGED <<now, config, acct, req, pts, resp, redeemLog, codes, widget, flow>>

\* Lines 109-141: the verify-OTP call returns; on success the redeem call is sent.
RpVerifyOtp(a) ==
  /\ pc[a] = "rp_votp"
  /\ \E vr \in VerifyResponses(req[a].otp) :
       IF vr.kind = "throw"
         THEN /\ pc' = [pc EXCEPT ![a] = "done"]
              /\ result' = [result EXCEPT ![a] = Reply(500, "Exception")]
              /\ loc' = [loc EXCEPT ![a] = [@ EXCEPT !.votp = "throw"]]
       ELSE IF vr.kind = "http"
         THEN /\ pc' = [pc EXCEPT ![a] = "done"]
              /\ result' = [result EXCEPT ![a] = Reply(400, "OtpVerificationFailed")]
              /\ loc' = [loc EXCEPT ![a] = [@ EXCEPT !.votp = "http"]]
       ELSE IF RpOtpRefused(vr)
         THEN /\ pc' = [pc EXCEPT ![a] = "done"]
              /\ result' = [result EXCEPT ![a] = Reply(400, "InvalidOtp")]
              /\ loc' = [loc EXCEPT ![a] = [@ EXCEPT !.votp = "refused"]]
       ELSE /\ pc' = [pc EXCEPT ![a] = "rp_redeem"]
            /\ loc' = [loc EXCEPT ![a] = [@ EXCEPT !.invNo = RpInvNo(req[a].customer, now),
                                                   !.votp = IF vr.error THEN "refused" ELSE "verified"]]
            /\ UNCHANGED result
  /\ UNCHANGED <<now, config, acct, req, pts, resp, redeemLog, codes, widget, flow>>

\* Lines 130-193: the provider's redeem call returns; with a redeemable amount
\* the discount code is named and the mutation is sent.
RpRedeem(a) ==
  /\ pc[a] = "rp_redeem"
  /\ \E pr \in ProviderRedeemResponses(acct) :
       /\ redeemLog' = redeemLog \o RpRedeemCalls(<<a, loc[a].invNo>>, pr)
       /\ IF pr.kind = "throw"
            THEN /\ pc' = [pc EXCEPT ![a] = "done"]
                 /\ result' = [result EXCEPT ![a] = Reply(500, "Exception")]
                 /\ UNCHANGED loc
          ELSE IF pr.kind = "http"
            THEN /\ pc' = [pc EXCEPT ![a] = "done"]
                 /\ result' = [result EXCEPT ![a] = Reply(500, "RedemptionFailed")]
                 /\ UNCHANGED loc
          ELSE IF pr.error \/ Falsy(pr.amt)
            THEN /\ pc' = [pc EXCEPT ![a] = "done"]
                 /\ result' = [result EXCEPT ![a] = Reply(400, "NoDiscountAvailable")]
                 /\ UNCHANGED loc
          ELSE /\ pc' = [pc EXCEPT ![a] = "rp_discount"]
               /\ loc' = [loc EXCEPT ![a] = [@ EXCEPT !.R = pr.amt,
                                                      !.code = RpDiscountCode(now)]]
               /\ UNCHANGED result
  /\ UNCHANGED <<now, config, acct, req, pts, resp, codes, widget, flow>>

\* Lines 169-207: the mutation returns; userErrors end in a 500, anything else
\* that does not throw is reported as success.
RpDiscount(a) ==
  /\ pc[a] = "rp_discount"
  /\ \E answer \in PlatformAnswersTo(req[a].shop, loc[a].code),
        cents \in ToFixed2(RpDiscountAmount(loc[a].R, req[a].S)) :
       /\ codes' = IF answer = "created"
                     THEN codes \cup {RpCodeDiscount(a, loc[a].code, cents, Gid(req[a].customer))}
                     ELSE codes
       /\ result' = [result EXCEPT ![a] =
                       IF answer = "throw" THEN Reply(500, "Exception")
                       ELSE IF RpUserErrors(answer) THEN Reply(500, "DiscountCreationFailed")
                       ELSE Success("Created", loc[a].code, RpDiscountAmount(loc[a].R, req[a].S))]
       /\ loc' = [loc EXCEPT ![a] = [@ EXCEPT !.platform = answer]]
  /\ pc' = [pc EXCEPT ![a] = "done"]
  /\ UNCHANGED <<now, config, acct, req, pts, resp, redeemLog, widget, flow>>

\* --------------------------------------------- interactive: POST verify-otp

\* inv_no: `CUST_ACC_REDEMPTION_${customer_gid.split('/').pop()}_${Date.now()}`
VoInvNo(c, t) == <<"CUST_ACC_REDEMPTION", GidTail(Gid(c)), t>>

\* `LOYALTY-${Math.random().toString(36).substring(2, 10).toUpperCase()}`
VoDiscountCode(rnd) == <<"LOYALTY", rnd>>

\* if (verifyData.error) return 400
VoOtpRefused(vr) == vr.error

\* The provider redeem calls sent for one request: one fetch, no loop around it.
VoRedeemCalls(call, pr) == <<call>>

\* variables.priceRule / discountCode of the priceRuleCreate mutation:
\* value is `-${discountAmount.toFixed(2)}`, the customer is the id's last segment.
VoPriceRule(a, code, cents, customerGid) ==
  [att |-> a, route |-> "verify-otp", code |-> code, amount |-> 0 - cents,
   usageLimit |-> 1, appliesOncePerCustomer |-> TRUE, customers |-> {GidTail(customerGid)},
   shop |-> req[a].shop]

\* Lines 56-103: method, admin session and payload checks, then the verify-OTP
\* call is sent with the phone number of the payload.
VoStart(a) ==
  /\ pc[a] = "idle"
  /\ \E auth \in BOOLEAN, c \in {0} \cup Customers, total \in {Missing} \cup (0..MaxAmt),
        otp \in {"none", "right", "wrong"}, phone \in BOOLEAN :
       /\ ~auth => (c = 0 /\ total = Missing /\ otp = "none" /\ ~phone)
       /\ req' = [req EXCEPT ![a] = [route |-> "verify-otp", variant |-> 0, customer |-> c,
                                     urlMf |-> FALSE, shopSrc |-> "none", S |-> total,
                                     otp |-> otp, auth |-> auth, phone |-> phone,
                                     shop |-> ShopDomain, sub |-> 0]]
       /\ LET out == IF ~auth THEN Reply(401, "Unauthorized")
                     ELSE IF ~phone \/ otp = "none" \/ total = Missing \/ c = 0
                       THEN Reply(400, "MissingParameters")
                     ELSE NoResult
          IN IF out # NoResult
               THEN /\ pc' = [pc EXCEPT ![a] = "done"]
                    /\ result' = [result EXCEPT ![a] = out]
               ELSE /\ pc' = [pc EXCEPT ![a] = "vo_votp"]
                    /\ UNCHANGED result
  /\ UNCHANGED <<now, config, acct, loc, pts, resp, redeemLog, codes, widget, flow>>

\* Lines 91-140: the verify-OTP call returns; on success the redeem call is sent.
VoVerifyOtp(a) ==
  /\ pc[a] = "vo_votp"
  /\ \E vr \in VerifyResponses(req[a].otp) :
       IF vr.kind \in {"throw", "http"}
         THEN /\ pc' = [pc EXCEPT ![a] = "done"]
              /\ result' = [result EXCEPT ![a] = Reply(500, "Exception")]
              /\ loc' = [loc EXCEPT ![a] = [@ EXCEPT !.votp = vr.kind]]
       ELSE IF VoOtpRefused(vr)
         THEN /\ pc' = [pc EXCEPT ![a] = "done"]
              /\ result' = [result EXCEPT ![a] = Reply(400, "InvalidOtp")]
              /\ loc' = [loc EXCEPT ![a] = [@ EXCEPT !.votp = "refused"]]
       ELSE /\ pc' = [pc EXCEPT ![a] = "vo_redeem"]
            /\ loc' = [loc EXCEPT ![a] = [@ EXCEPT !.invNo = VoInvNo(req[a].customer, now),
                                                   !.votp = IF vr.error THEN "refused" ELSE "verified"]]
            /\ UNCHANGED result
  /\ UNCHANGED <<now, config, acct, req, pts, resp, redeemLog, codes, widget, flow>>

\* Lines 136-214: the redeem call returns; the route reads discount_value_rupees,
\* which the provider's answer may or may not carry next to maxRedeemableAmt.
VoRedeem(a) ==
  /\ pc[a] = "vo_redeem"
  /\ \E pr \in ProviderRedeemResponses(acct), hasDvr \in BOOLEAN, rnd \in 1..MaxRandom :
       LET dvr == IF hasDvr THEN OrZero(pr.amt) ELSE 0 IN
       /\ redeemLog' = redeemLog \o VoRedeemCalls(<<a, loc[a].invNo>>, pr)
       /\ IF pr.kind \in {"throw", "http"}
            THEN /\ pc' = [pc EXCEPT ![a] = "done"]
                 /\ result' = [result EXCEPT ![a] = Reply(500, "Exception")]
                 /\ UNCHANGED loc
          ELSE IF pr.error
            THEN /\ pc' = [pc EXCEPT ![a] = "done"]
                 /\ result' = [result EXCEPT ![a] = Reply(400, "RedemptionFailed")]
                 /\ UNCHANGED loc
          ELSE IF dvr <= 0
            THEN /\ pc' = [pc EXCEPT ![a] = "done"]
                 /\ result' = [result EXCEPT ![a] = Reply(200, "NoDiscountValue")]
                 /\ UNCHANGED loc
          ELSE /\ pc' = [pc EXCEPT ![a] = "vo_discount"]
               /\ loc' = [loc EXCEPT ![a] = [@ EXCEPT !.R = dvr, !.code = VoDiscountCode(rnd)]]
               /\ UNCHANGED result
  /\ UNCHANGED <<now, config, acct, req, pts, resp, codes, widget, flow>>

\* Lines 209-242: the mutation returns. The route looks for priceRuleCreate at the
\* top of the response body, where the platform puts only data, so it never
\* finds the created code and answers 500 whatever the platform did.
VoDiscount(a) ==
  /\ pc[a] = "vo_discount"
  /\ \E answer \in PlatformAnswersTo(req[a].shop, loc[a].code), cents \in ToFixed2(loc[a].R) :
       /\ codes' = IF answer = "created"
                     THEN codes \cup {VoPriceRule(a, loc[a].code, cents, Gid(req[a].customer))}
                     ELSE codes
       /\ result' = [result EXCEPT ![a] =
                       IF answer = "throw" THEN Reply(500, "Exception")
                       ELSE IF answer = "noBody" THEN Reply(500, "NoDataReceived")
                       ELSE Reply(500, "DiscountCodeNotReturned")]
       /\ loc' = [loc EXCEPT ![a] = [@ EXCEPT !.platform = answer]]
  /\ pc' = [pc EXCEPT ![a] = "done"]
  /\ UNCHANGED <<now, config, acct, req, pts, resp, redeemLog, widget, flow>>

\* ------------------------------------- interactive: POST loyalty/verify-otp

\* if (!shopSession || !shopSession.isBillFreeConfigured || !shopSession.billFreeAuthToken)
LvNotConfigured(session) == session \in {"absent", "notConfigured", "noBillFreeToken"}

\* Lines 60-108 and 274-277: after the checks the handler reads request.json()
\* a second time; the body is already consumed, the read throws, and the catch
\* block answers 500 before any provider call is made.
LvStart(a) ==
  /\ pc[a] = "idle"
  /\ \E auth \in BOOLEAN, c \in {0} \cup Customers, total \in {Missing} \cup (0..MaxAmt),
        otp \in {"none", "right", "wrong"}, phone \in BOOLEAN :
       /\ ~auth => (c = 0 /\ total = Missing /\ otp = "none" /\ ~phone)
       /\ req' = [req EXCEPT ![a] = [route |-> "loyalty-verify-otp", variant |-> 0, customer |-> c,
                                     urlMf |-> FALSE, shopSrc |-> "none", S |-> total,
                                     otp |-> otp, auth |-> auth, phone |-> phone,
                                     shop |-> ShopDomain, sub |-> 0]]
       /\ result' = [result EXCEPT ![a] =
                       IF ~auth THEN Reply(401, "Unauthorized")
                       ELSE IF ~phone \/ otp = "none" \/ total = Missing \/ c = 0
                         THEN Reply(400, "MissingParameters")
                       ELSE IF LvNotConfigured(FindSession(ShopDomain)) THEN Reply(400, "NotConfigured")
                       ELSE Reply(500, "Exception")]
  /\ pc' = [pc EXCEPT ![a] = "done"]
  /\ config' = SessionAfterFindUnique(config)
  /\ UNCHANGED <<now, acct, loc, pts, resp, redeemLog, codes, widget, flow>>

\* ------------------------------------------- GET /api/loyalty/points
\* (the loader of api.loyalty.points.ts)

\* Answer of the provider to a balance call.
ProviderPointsResponses(p) ==
  {[kind |-> k, error |-> FALSE, balance |-> 0, otpFlag |-> "n"] : k \in {"throw", "http"}}
  \cup [kind : {"json"}, error : BOOLEAN, balance : BalanceVals(p), otpFlag : {p.otp}]

\* Answer of the platform to the customer-phone query.
PhoneAnswers == {"throw", "noBody", "errors", "noData", "noPhone", "phone"}

\* A response with a non-2xx status.
PlHttpError(status) ==
  [kind |-> "http", status |-> status, err |-> TRUE, balance |-> 0, phone |-> FALSE, otpFlag |-> "n"]

\* if (!shopSession || !shopSession.isBillFreeConfigured ||
\*     !shopSession.billFreeAuthToken || !shopSession.accessToken)
PlNotConfigured(session) == session # "ok"

\* Does the loader get as far as the provider's balance call: the customer id
\* is there, the session of `offline_${shop_domain}` is fully configured and
\* the platform returned a phone number.

\* Mutant: the balance call is made whether or not a phone number was found.
PlAsksProviderWithoutPhone(c, domain, platform) ==
  c # 0 /\ ~PlNotConfigured(FindSession(domain)) /\ platform \in {"noPhone", "phone"}

PlAsksProvider(c, domain, platform) ==
  c # 0 /\ ~PlNotConfigured(FindSession(domain)) /\ platform = "phone"

\* Status and message of the loader's answer.
PlReply(c, domain, platform, pv) ==
  IF c = 0 THEN Reply(400, "MissingCustomer")
  ELSE IF PlNotConfigured(FindSession(domain)) THEN Reply(400, "NotConfigured")
  ELSE IF platform \in {"throw", "noBody", "errors", "noData"} THEN Reply(500, "Exception")
  ELSE IF platform = "noPhone" THEN Reply(200, "AddPhoneNumber")
  ELSE IF pv.kind \in {"throw", "http"} THEN Reply(500, "ProviderUnavailable")
  ELSE IF pv.error THEN Reply(500, "ProviderRejected")
  ELSE Reply(200, "Balance")

\* A loader that forwards whatever balance the provider's answer holds.
PlResponseForwardsAll(c, domain, platform, pv) ==
  [kind |-> "json", status |-> 200, err |-> FALSE, balance |-> pv.balance, phone |-> TRUE,
   otpFlag |-> pv.otpFlag]

\* How the provider's balance call ended, if it was made.
PlBalanceCall(c, domain, platform, pv) ==
  IF ~PlAsksProvider(c, domain, platform) THEN "none"
  ELSE IF pv.kind # "json" THEN pv.kind
  ELSE IF pv.error THEN "error"
  ELSE "ok"

\* The loader's answer as its caller's fetch sees it.
PlResponse(c, domain, platform, pv) ==
  LET reply == PlReply(c, domain, platform, pv) IN
  IF reply.status # 200 THEN PlHttpError(reply.status)
  ELSE IF reply.msg = "AddPhoneNumber"
    THEN [kind |-> "json", status |-> 200, err |-> TRUE, balance |-> 0, phone |-> FALSE, otpFlag |-> "y"]
  ELSE [kind |-> "json", status |-> 200, err |-> FALSE, balance |-> pv.balance, phone |-> TRUE,
        otpFlag |-> pv.otpFlag]

\* What became of the phone lookup.
PlPhone(c, domain, platform) ==
  IF c = 0 \/ PlNotConfigured(FindSession(domain)) THEN "unknown"
  ELSE IF platform = "noPhone" THEN "none"
  ELSE IF platform = "phone" THEN "found"
  ELSE "failed"

\* shop_domain query parameter of a points request.
PlShopDomain(r) == IF r.shopSrc = "param" THEN ShopDomain ELSE "null"

\* A points request of any client, answered by the loader.
PointsLoader(a) ==
  /\ pc[a] = "idle"
  /\ \E c \in {0} \cup Customers, shop \in {"param", "none"},
        platform \in PhoneAnswers, pv \in ProviderPointsResponses(acct) :
       LET r == [route |-> "points", variant |-> 0, customer |-> c, urlMf |-> FALSE,
                 shopSrc |-> shop, S |-> 0, otp |-> "none", auth |-> FALSE, phone |-> FALSE,
                 shop |-> ShopDomain, sub |-> 0]
           domain == PlShopDomain(r)
       IN  /\ req' = [req EXCEPT ![a] = r]
           /\ result' = [result EXCEPT ![a] = PlReply(c, domain, platform, pv)]
           /\ pts' = [pts EXCEPT ![a] = PlResponse(c, domain, platform, pv)]
           /\ loc' = [loc EXCEPT ![a] = [@ EXCEPT !.phone = PlPhone(c, domain, platform),
                                                  !.asked = PlAsksProvider(c, domain, platform),
                                                  !.balanceCall =
                                                     PlBalanceCall(c, domain, platform, pv)]]
  /\ pc' = [pc EXCEPT ![a] = "done"]
  /\ config' = SessionAfterFindUnique(config)
  /\ UNCHANGED <<now, acct, resp, redeemLog, codes, widget, flow>>

\* The points request of the discount function, answered by this loader. The
\* function's URL carries customer_gid and no shop_domain (lines 53 / 240).
FnPointsViaLoader(a) ==
  /\ pc[a] = "fn_points"
  /\ \E platform \in PhoneAnswers, pv \in ProviderPointsResponses(acct) :
       FnHandlePoints(a, PlResponse(req[a].customer, "null", platform, pv))
  /\ config' = SessionAfterFindUnique(config)
  /\ UNCHANGED <<now, acct, req, resp, redeemLog, codes, widget, flow>>

\* ------------------------------------------------- Flow action handler
\* (verifyRequestAndGetBody of hmac.server.ts, action of flow-action.handle.ts)

\* Request bodies: empty, not JSON, JSON the schema refuses (an empty order or
\* customer id included: both are z.string().min(1)), a complete payload.
FlowBodies == {"", "notJson", "badShape", "valid"}

\* createHmac("sha256", SHOPIFY_API_SECRET).update(requestBody, "utf8").digest("base64")
Hmac(body) == <<"hmac-sha256", body>>

\* x-shopify-hmac-sha256: absent, a value that decodes to another length than
\* a SHA-256 digest, or the digest of some body.
NoHeader    == <<"none", "">>
ShortHeader == <<"short", "">>
HmacHeaders == {NoHeader, ShortHeader} \cup {Hmac(b) : b \in FlowBodies}

\* hmacBuffer.length !== generatedBuffer.length
HmacLengthDiffers(header, generated) == header = ShortHeader

\* What the statements inside try { } of lines 47-63 throw, if anything.
HmacComparison(header, generated) ==
  IF HmacLengthDiffers(header, generated) THEN "InvalidHmacSignature"
  ELSE IF header # generated THEN "InvalidHmacSignature"
  ELSE "none"

\* A verification that lets every request through.
VerifyRequestAlwaysPasses(secretSet, header, body) ==
  [ok |-> TRUE, status |-> 200, msg |-> "Verified", body |-> body]

\* verifyRequestAndGetBody: the raw body, or the Response it throws. Whatever
\* is thrown inside try { } is caught by the catch of lines 64-68, which throws
\* the 400 of line 67 in its place.
VerifyRequestAndGetBody(secretSet, header, body) ==
  IF ~secretSet THEN [ok |-> FALSE, status |-> 500, msg |-> "AppNotConfigured", body |-> ""]
  ELSE IF header = NoHeader
    THEN [ok |-> FALSE, status |-> 401, msg |-> "MissingHmacHeader", body |-> ""]
  ELSE IF body = "" THEN [ok |-> FALSE, status |-> 400, msg |-> "BodyMissing", body |-> ""]
  ELSE IF HmacComparison(header, Hmac(body)) # "none"
    THEN [ok |-> FALSE, status |-> 400, msg |-> "InvalidHmacHeaderFormat", body |-> ""]
  ELSE [ok |-> TRUE, status |-> 200, msg |-> "Verified", body |-> body]

\* JSON.parse(rawBody) and FlowActionPayloadSchema.parse(parsedBody) succeed.
FlowSchemaAccepts(body) == body = "valid"

\* Answers of the platform to the order-and-customer query.
FlowQueryAnswers == {"throw", "noBody", "noData", "noOrder", "noCustomer", "data"}

\* Answers of the provider to the invoice POST.
FlowPostAnswers == {"throw", "notOk", "ok"}

NoFlow ==
  [pc |-> "idle", secretSet |-> FALSE, header |-> NoHeader, body |-> "", envSet |-> FALSE,
   returned |-> "", answer |-> "none", status |-> 0, msg |-> "none",
   adminQueries |-> 0, invoicePosts |-> 0]

FlowEnds(f, status, msg) == [f EXCEPT !.pc = "done", !.status = status, !.msg = msg]

\* Lines 22-209: HMAC verification, payload validation, session lookup and
\* the order-and-customer query being sent.
FlowVerify ==
  /\ flow.pc = "idle"
  /\ \E secretSet \in BOOLEAN, header \in HmacHeaders, body \in FlowBodies,
        envSet \in BOOLEAN, session \in BOOLEAN :
       LET v == VerifyRequestAndGetBody(secretSet, header, body)
           f == [flow EXCEPT !.secretSet = secretSet, !.header = header, !.body = body,
                             !.envSet = envSet, !.returned = v.body]
       IN  flow' =
             IF ~v.ok THEN FlowEnds(f, v.status, v.msg)
             ELSE IF v.body = "notJson" THEN FlowEnds(f, 400, "InvalidJson")
             ELSE IF ~FlowSchemaAccepts(v.body) THEN FlowEnds(f, 400, "InvalidPayload")
             ELSE IF ~session THEN FlowEnds(f, 500, "NoSession")
             ELSE [f EXCEPT !.pc = "query", !.adminQueries = @ + 1]
  /\ UNCHANGED <<now, config, acct, pc, req, loc, pts, resp, redeemLog, codes, result, widget>>

\* Lines 210-406: the query's answer is checked, the invoice is built and,
\* with the provider's URL and token set, posted.
FlowQueryReturn ==
  /\ flow.pc = "query"
  /\ \E answer \in FlowQueryAnswers :
       LET f == [flow EXCEPT !.answer = answer] IN
       flow' =
         IF answer = "noBody" THEN FlowEnds(f, 500, "NoDataFromShopify")
         ELSE IF answer \in {"throw", "noData"} THEN FlowEnds(f, 500, "Exception")
         ELSE IF answer \in {"noOrder", "noCustomer"} THEN FlowEnds(f, 500, "OrderOrCustomerMissing")
         ELSE IF ~flow.envSet THEN FlowEnds(f, 500, "Exception")
         ELSE [f EXCEPT !.pc = "post", !.invoicePosts = @ + 1]
  /\ UNCHANGED <<now, config, acct, pc, req, loc, pts, resp, redeemLog, codes, result, widget>>

\* Lines 408-435: the provider's answer to the invoice POST.
FlowPostReturn ==
  /\ flow.pc = "post"
  /\ \E answer \in FlowPostAnswers :
       flow' =
         IF answer = "throw" THEN FlowEnds(flow, 500, "Exception")
         ELSE IF answer = "notOk" THEN FlowEnds(flow, 500, "BillFreeFailed")
         ELSE FlowEnds(flow, 200, "InvoiceSent")
  /\ UNCHANGED <<now, config, acct, pc, req, loc, pts, resp, redeemLog, codes, result, widget>>

\* ------------------------------------------------------------- the clock

\* ------------------------------------------------------- POST /api/send-otp
\* (the action of api.send-otp.ts; app.qgl.tsx holds a copy of it)

\* Answer of the provider to the OTP dispatch: fetch rejects, a non-2xx status,
\* a body with the error flag set, or a body reporting the SMS as sent.
CotpAnswers == {"throw", "http", "error", "sent"}

\* A response of the route: its status, whether the body's error field is
\* truthy, and whether the body carries the provider's token.
SoReply(status, msg, error, token) ==
  [status |-> status, msg |-> msg, ops |-> <<>>, code |-> <<>>, amount |-> 0,
   userErrors |-> FALSE, error |-> error, token |-> token]

\* if (!shopSession?.isBillFreeConfigured || !shopSession.billFreeAuthToken)
SoNotConfigured(session) == session \in {"absent", "notConfigured", "noBillFreeToken"}

\* Lines 76-105: the answer of the route once the dispatch was attempted.
SoDispatchReply(answer) ==
  IF answer \in {"throw", "http"} THEN SoReply(500, "SendFailed", FALSE, FALSE)
  ELSE IF answer = "error" THEN SoReply(400, "ProviderRejected", FALSE, FALSE)
  ELSE SoReply(200, "Sent", TRUE, TRUE)

SendOtp(a) ==
  /\ pc[a] = "idle"
  /\ \E auth \in BOOLEAN, phone \in BOOLEAN, answer \in CotpAnswers :
       /\ ~auth => ~phone
       /\ req' = [req EXCEPT ![a] = [route |-> "send-otp", variant |-> 0, customer |-> 0,
                                     urlMf |-> FALSE, shopSrc |-> "token", S |-> 0,
                                     otp |-> "none", auth |-> auth, phone |-> phone,
                                     shop |-> ShopDomain, sub |-> 0]]
       /\ IF ~auth \/ ~phone \/ SoNotConfigured(FindSession(ShopDomain))
            THEN /\ result' = [result EXCEPT ![a] =
                                 IF ~auth THEN SoReply(401, "Unauthorized", TRUE, FALSE)
                                 ELSE IF ~phone THEN SoReply(400, "MissingParameters", TRUE, FALSE)
                                 ELSE SoReply(400, "NotConfigured", FALSE, FALSE)]
                 /\ UNCHANGED loc
            ELSE /\ result' = [result EXCEPT ![a] = SoDispatchReply(answer)]
                 /\ loc' = [loc EXCEPT ![a] = [@ EXCEPT !.cotp = answer]]
  /\ pc' = [pc EXCEPT ![a] = "done"]
  /\ config' = SessionAfterFindUnique(config)
  /\ UNCHANGED <<now, acct, pts, resp, redeemLog, codes, widget, flow>>

\* ------------------------------------------------- account widget
\* (LoyaltyPoints of OrderStatusBlock.tsx)

\* The useState initial values. call / sentOtp: the fetch a handler awaits and
\* the otp_code in its body; answer: the response the last handler got;
\* verifyOutcome: how the last run of
\* handleVerifyOTPAndRedeem ended.
NoWidget ==
  [isLoading |-> TRUE, points |-> Missing, errorMessage |-> "none", otpFlag |-> "n",
   redemptionStep |-> "idle", isRedeeming |-> FALSE, otpCode |-> "", billAmount |-> 0,
   discountCode |-> "", call |-> "none", sentOtp |-> "", answer |-> "none",
   verifyOutcome |-> "none"]

\* {points > 0 && !errorMessage && ( ...Redemption Section... )}
RedemptionShown(w) == w.points > 0 /\ w.errorMessage = "none"

\* The OTP field and the Verify & Redeem button are rendered.
OtpFormShown(w) == RedemptionShown(w) /\ w.redemptionStep = "otp-sent"

\* Answers of POST /api/send-otp as the widget sees them.
SendOtpAnswers == {"throw", "ok", "notOk"}

\* Answers of POST /api/loyalty/redeem-points as the widget sees them; a
\* request carrying a wrong code is never answered with success.
RedeemAnswers(otp) ==
  IF otp = "wrong" THEN {"throw", "failure"} ELSE {"throw", "failure", "success"}

\* Math.max(0, prevPoints - data.pointsRedeemed || 0)
PointsAfter(prev, redeemed) ==
  LET d == IF redeemed = Missing THEN 0 ELSE prev - redeemed
  IN  IF d > 0 THEN d ELSE 0

\* The rest of the model does not move while the widget does.
BackendUnchanged ==
  UNCHANGED <<now, config, acct, pc, req, loc, pts, resp, redeemLog, codes, result, flow>>

\* fetchPoints from the answer on: the widget state after the points response r.
WidgetAfterPoints(w, hasId, r) ==
  IF ~hasId
    THEN [w EXCEPT !.errorMessage = "CustomerIdNotAvailable", !.isLoading = FALSE]
  ELSE IF r.kind \in {"throw", "http"}
    THEN [w EXCEPT !.errorMessage = "CouldNotLoad", !.isLoading = FALSE]
  ELSE IF r.err
    THEN [w EXCEPT !.errorMessage = "ResponseError", !.isLoading = FALSE]
  ELSE [w EXCEPT !.points = r.balance, !.otpFlag = r.otpFlag, !.isLoading = FALSE]

\* useEffect: fetchPoints, answered by whatever server backendUrl names
WidgetFetchPoints ==
  /\ widget.isLoading
  /\ \E hasId \in BOOLEAN, r \in PointsResponses(acct) :
       widget' = WidgetAfterPoints(widget, hasId, r)
  /\ BackendUnchanged

\* const requestUrl = `${loyaltyUrl}?customer_id=${customerGid}`: the query
\* parameters of the widget's points request.
WidgetPointsQuery(c) == [customer_id |-> c]

\* url.searchParams.get("customer_gid"); 0 stands for null.
PlCustomerGid(query) ==
  IF "customer_gid" \in DOMAIN query THEN query.customer_gid ELSE 0

\* url.searchParams.get("shop_domain"), as it ends up in `offline_${shopDomain}`.
PlShopDomainParam(query) ==
  IF "shop_domain" \in DOMAIN query THEN query.shop_domain ELSE "null"

\* fetchPoints of the widget, answered by the points loader of this app.
WidgetFetchPointsViaLoader(a) ==
  /\ pc[a] = "idle"
  /\ widget.isLoading
  /\ \E c \in Customers, platform \in PhoneAnswers, pv \in ProviderPointsResponses(acct) :
       LET query  == WidgetPointsQuery(c)
           gid    == PlCustomerGid(query)
           domain == PlShopDomainParam(query)
       IN  /\ req' = [req EXCEPT ![a] = [route |-> "points", variant |-> 0, customer |-> c,
                                         urlMf |-> FALSE, shopSrc |-> "none", S |-> 0,
                                         otp |-> "none", auth |-> TRUE, phone |-> FALSE,
                                         shop |-> ShopDomain, sub |-> 0]]
           /\ result' = [result EXCEPT ![a] = PlReply(gid, domain, platform, pv)]
           /\ pts' = [pts EXCEPT ![a] = PlResponse(gid, domain, platform, pv)]
           /\ loc' = [loc EXCEPT ![a] = [@ EXCEPT !.phone = PlPhone(gid, domain, platform),
                                                  !.asked = PlAsksProvider(gid, domain, platform),
                                                  !.balanceCall =
                                                     PlBalanceCall(gid, domain, platform, pv)]]
           /\ widget' = WidgetAfterPoints(widget, TRUE, PlResponse(gid, domain, platform, pv))
  /\ pc' = [pc EXCEPT ![a] = "done"]
  /\ config' = SessionAfterFindUnique(config)
  /\ UNCHANGED <<now, acct, resp, redeemLog, codes, flow>>

\* onChange={setBillAmount}
WidgetSetBillAmount ==
  /\ RedemptionShown(widget) /\ widget.redemptionStep = "idle"
  /\ \E v \in 0..1 : widget' = [widget EXCEPT !.billAmount = v]
  /\ BackendUnchanged

\* onChange={setOtpCode}
WidgetSetOtpCode ==
  /\ OtpFormShown(widget)
  /\ \E v \in {"", "right", "wrong"} : widget' = [widget EXCEPT !.otpCode = v]
  /\ BackendUnchanged

\* The 'Send OTP to Redeem' button is rendered and enabled.
SendOtpOffered(w) ==
  /\ RedemptionShown(w) /\ w.redemptionStep = "idle"
  /\ w.otpFlag = "y" /\ w.billAmount # 0 /\ ~w.isRedeeming

\* A 'Redeem Points' button that is rendered whatever the OTP flag says.
DirectRedeemOfferedToAll(w) ==
  /\ RedemptionShown(w) /\ w.redemptionStep = "idle"
  /\ w.billAmount # 0 /\ ~w.isRedeeming

\* The 'Redeem Points' button is rendered and enabled.
DirectRedeemOffered(w) ==
  /\ RedemptionShown(w) /\ w.redemptionStep = "idle"
  /\ w.otpFlag # "y" /\ w.billAmount # 0 /\ ~w.isRedeeming

\* The 'Verify & Redeem' button is rendered and enabled.
VerifyOffered(w) == OtpFormShown(w) /\ w.otpCode # "" /\ ~w.isRedeeming

\* A handler that moves on to the OTP form whatever send-otp answered.
AfterSendOTPAlwaysSent(w, answer) ==
  [w EXCEPT !.redemptionStep = "otp-sent", !.isRedeeming = FALSE, !.call = "none",
            !.answer = answer]

\* handleSendOTP from the answer on (lines 129-139)
AfterSendOTP(w, answer) ==
  IF answer = "ok"
    THEN [w EXCEPT !.redemptionStep = "otp-sent", !.isRedeeming = FALSE, !.call = "none",
                   !.answer = answer]
  ELSE IF answer = "notOk"
    THEN [w EXCEPT !.errorMessage = "SendOtpFailed", !.isRedeeming = FALSE, !.call = "none",
                   !.answer = answer]
  ELSE [w EXCEPT !.errorMessage = "NetworkError", !.isRedeeming = FALSE, !.call = "none",
                 !.answer = answer]

\* handleDirectRedeem from the answer on (lines 159-174)
AfterDirectRedeem(w, answer, redeemed) ==
  IF answer = "success"
    THEN [w EXCEPT !.discountCode = "code", !.redemptionStep = "success",
                   !.points = PointsAfter(w.points, redeemed),
                   !.isRedeeming = FALSE, !.call = "none", !.answer = answer]
  ELSE IF answer = "failure"
    THEN [w EXCEPT !.errorMessage = "RedeemFailed", !.isRedeeming = FALSE, !.call = "none",
                   !.answer = answer]
  ELSE [w EXCEPT !.errorMessage = "NetworkError", !.isRedeeming = FALSE, !.call = "none",
                 !.answer = answer]

\* handleVerifyOTPAndRedeem from the answer on (lines 195-211)
AfterVerify(w, answer, redeemed) ==
  IF answer = "success"
    THEN [w EXCEPT !.discountCode = "code", !.redemptionStep = "success", !.otpCode = "",
                   !.points = PointsAfter(w.points, redeemed),
                   !.isRedeeming = FALSE, !.call = "none", !.answer = answer,
                   !.verifyOutcome = "redeemed"]
  ELSE IF answer = "failure"
    THEN [w EXCEPT !.errorMessage = "RedeemFailed", !.isRedeeming = FALSE, !.call = "none",
                   !.answer = answer,
                   !.verifyOutcome = IF w.sentOtp = "wrong" THEN "rejected" ELSE "failed"]
  ELSE [w EXCEPT !.errorMessage = "NetworkError", !.isRedeeming = FALSE, !.call = "none",
                 !.answer = answer, !.verifyOutcome = "network"]

\* handleSendOTP, up to its fetch
WidgetSendOTP ==
  /\ SendOtpOffered(widget)
  /\ widget' = [widget EXCEPT !.isRedeeming = TRUE, !.call = "sendOtp"]
  /\ BackendUnchanged

\* handleSendOTP, from the answer on
WidgetSendOTPSettles ==
  /\ widget.call = "sendOtp"
  /\ \E answer \in SendOtpAnswers : widget' = AfterSendOTP(widget, answer)
  /\ BackendUnchanged

\* handleDirectRedeem, up to its fetch
WidgetDirectRedeem ==
  /\ DirectRedeemOffered(widget)
  /\ widget' = [widget EXCEPT !.isRedeeming = TRUE, !.call = "direct", !.sentOtp = ""]
  /\ BackendUnchanged

\* handleDirectRedeem, from the answer on
WidgetDirectRedeemSettles ==
  /\ widget.call = "direct"
  /\ \E answer \in RedeemAnswers(widget.sentOtp), redeemed \in {Missing} \cup (0..1) :
       widget' = AfterDirectRedeem(widget, answer, redeemed)
  /\ BackendUnchanged

\* handleVerifyOTPAndRedeem, up to its fetch
WidgetVerifyOTPAndRedeem ==
  /\ VerifyOffered(widget)
  /\ widget' = [widget EXCEPT !.isRedeeming = TRUE, !.call = "verify",
                              !.sentOtp = widget.otpCode, !.verifyOutcome = "none"]
  /\ BackendUnchanged

\* handleVerifyOTPAndRedeem, from the answer on
WidgetVerifySettles ==
  /\ widget.call = "verify"
  /\ \E answer \in RedeemAnswers(widget.sentOtp), redeemed \in {Missing} \cup (0..1) :
       widget' = AfterVerify(widget, answer, redeemed)
  /\ BackendUnchanged

\* Cancel: onPress={() => setRedemptionStep("idle")}
WidgetCancel ==
  /\ OtpFormShown(widget) /\ ~widget.isRedeeming
  /\ widget' = [widget EXCEPT !.redemptionStep = "idle"]
  /\ BackendUnchanged

\* Redeem More Points: onPress={() => setRedemptionStep("idle")}
WidgetRedeemMore ==
  /\ RedemptionShown(widget) /\ widget.redemptionStep = "success"
  /\ widget' = [widget EXCEPT !.redemptionStep = "idle"]
  /\ BackendUnchanged

Tick ==
  /\ now < MaxClock
  /\ now' = now + 1
  /\ UNCHANGED <<config, acct, pc, req, loc, pts, resp, redeemLog, codes, result, widget, flow>>

\* --------------------------------------------------------- specification

\* Stored session of the shop: absent, fully configured, or lacking a piece.
ConfigStates == {"absent", "ok", "notConfigured", "noBillFreeToken", "noAccessToken"}

InitAttempts ==
  /\ now = 0
  /\ req = [a \in Attempts |-> NoReq]
  /\ loc = [a \in Attempts |-> NoLoc]
  /\ pts = [a \in Attempts |-> NoPts]
  /\ resp = [a \in Attempts |-> NoResp]
  /\ result = [a \in Attempts |-> NoResult]
  /\ redeemLog = <<>>
  /\ codes = {}
  /\ widget = NoWidget
  /\ flow = NoFlow

\* One redemption attempt at a time.
Init ==
  /\ InitAttempts
  /\ config \in ConfigStates
  /\ acct \in Profiles
  /\ pc = [a \in Attempts |-> IF a = 1 THEN "idle" ELSE "off"]

Next ==
  \/ Tick
  \/ \E a \in Attempts : FnStart(a)
  \/ \E a \in Attempts : FnPointsReturn(a)
  \/ \E a \in Attempts : RedeemProxy(a)
  \/ \E a \in Attempts : FnRedeemReturn(a)
  \/ \E a \in Attempts : FnRedeemThrow(a)
  \/ \E a \in Attempts : RpStart(a)
  \/ \E a \in Attempts : RpCustomer(a)
  \/ \E a \in Attempts : RpVerifyOtp(a)
  \/ \E a \in Attempts : RpRedeem(a)
  \/ \E a \in Attempts : RpDiscount(a)
  \/ \E a \in Attempts : VoStart(a)
  \/ \E a \in Attempts : VoVerifyOtp(a)
  \/ \E a \in Attempts : VoRedeem(a)
  \/ \E a \in Attempts : VoDiscount(a)
  \/ \E a \in Attempts : LvStart(a)
  \/ \E a \in Attempts : PointsLoader(a)
  \/ \E a \in Attempts : SendOtp(a)

Spec == Init /\ [][Next]_vars

\* Concurrent attempts of a configured shop: every attempt may run, and the
\* requests are well-formed ones (authorized, complete, for the full amount).
InitConc ==
  /\ InitAttempts
  /\ config = "ok"
  /\ acct = [otp |-> "n", hasPoints |-> TRUE]
  /\ pc = [a \in Attempts |-> "idle"]

WellFormed(r) ==
  /\ r.customer \in Customers
  /\ r.S = MaxAmt
  /\ r.otp = "none"
  /\ r.route = "checkout" => (r.urlMf /\ r.variant = 2 /\ r.shopSrc = "metafield")
  /\ r.route = "redeem-points" => r.auth

NextConc ==
  \/ Tick
  \/ \E a \in Attempts : FnStart(a) /\ WellFormed(req'[a])
  \/ \E a \in Attempts : FnPointsReturn(a)
  \/ \E a \in Attempts : RedeemProxy(a)
  \/ \E a \in Attempts : FnRedeemReturn(a)
  \/ \E a \in Attempts : RpStart(a) /\ WellFormed(req'[a])
  \/ \E a \in Attempts : RpCustomer(a)
  \/ \E a \in Attempts : RpRedeem(a)
  \/ \E a \in Attempts : RpDiscount(a)

SpecConc == InitConc /\ [][NextConc]_vars

\* The discount function composed with the points loader of this repository.
\* The evaluation never gets as far as the redeem request (NeverAsksRedeem),
\* so the redeem proxy has no step here.
NextE2E ==
  \/ Tick
  \/ \E a \in Attempts : FnStart(a)
  \/ \E a \in Attempts : FnPointsViaLoader(a)

SpecE2E == Init /\ [][NextE2E]_vars

\* The account widget on its own, its three endpoints answering as they may.
NextWidget ==
  \/ WidgetFetchPoints
  \/ WidgetSetBillAmount
  \/ WidgetSetOtpCode
  \/ WidgetSendOTP
  \/ WidgetSendOTPSettles
  \/ WidgetDirectRedeem
  \/ WidgetDirectRedeemSettles
  \/ WidgetVerifyOTPAndRedeem
  \/ WidgetVerifySettles
  \/ WidgetCancel
  \/ WidgetRedeemMore

SpecWidget == Init /\ [][NextWidget]_vars

\* The Flow action handler.
NextFlow ==
  \/ FlowVerify
  \/ FlowQueryReturn
  \/ FlowPostReturn

SpecFlow == Init /\ [][NextFlow]_vars

\* The points loader of this app and the clients that ask it.
NextPoints ==
  \/ Tick
  \/ \E a \in Attempts : PointsLoader(a)
  \/ \E a \in Attempts : WidgetFetchPointsViaLoader(a)

SpecPoints == Init /\ [][NextPoints]_vars

\* The discount function with its fetches split into the network's part and
\* the function's part. Whether and when a fetch settles is up to the network:
\* the function sets no timer and passes no abort signal (lines 53-55, 100-109,
\* 240-242, 287-296). Once a fetch has settled, the runtime runs the code that
\* awaits it.
NetPointsSettle(a) ==
  /\ pc[a] = "fn_points"
  /\ \E r \in PointsResponses(acct) : pts' = [pts EXCEPT ![a] = r]
  /\ pc' = [pc EXCEPT ![a] = "fn_points_settled"]
  /\ UNCHANGED <<now, config, acct, req, loc, resp, redeemLog, codes, result, widget, flow>>

FnPointsContinue(a) ==
  /\ pc[a] = "fn_points_settled"
  /\ FnHandlePoints(a, pts[a])
  /\ UNCHANGED <<now, config, acct, req, resp, redeemLog, codes, widget, flow>>

NetRedeemSettle(a) == RedeemProxy(a) \/ FnRedeemThrow(a)

NextLive ==
  \/ \E a \in Attempts : FnStart(a)
  \/ \E a \in Attempts : NetPointsSettle(a)
  \/ \E a \in Attempts : FnPointsContinue(a)
  \/ \E a \in Attempts : NetRedeemSettle(a)
  \/ \E a \in Attempts : FnRedeemReturn(a)

SpecLive ==
  /\ Init
  /\ [][NextLive]_vars
  /\ \A a \in Attempts : WF_vars(FnStart(a))
  /\ \A a \in Attempts : WF_vars(FnPointsContinue(a))
  /\ \A a \in Attempts : WF_vars(FnRedeemReturn(a))

\* ================================================================ claims

Checkout(a)    == req[a].route = "checkout"
Interactive(a) == req[a].route \in {"redeem-points", "verify-otp", "loyalty-verify-otp"}

\* The provider redeem calls sent on behalf of attempt a.
RedeemCallsOf(a) == {i \in DOMAIN redeemLog : redeemLog[i][1] = a}

\* The discount codes created on behalf of attempt a.
CodesOf(a) == {k \in codes : k.att = a}

\* The checkout function returned a discount; its fixed amount in cents.
Emitted(a) == Checkout(a) /\ pc[a] = "done" /\ result[a].ops # <<>>
EmittedCents(a) == result[a].ops[1].orderDiscountsAdd.candidates[1].value.fixedAmount.amount

\* |x|
Abs(x) == IF x < 0 THEN 0 - x ELSE x

\* C1 (as stated): on the checkout path the emitted fixed amount equals
\* min(R, S) for the cart subtotal S and the amount R the redeem proxy returned;
\* it is never negative and never exceeds S.
C1_EmittedEqualsMin ==
  \A a \in Attempts :
    Emitted(a) =>
      LET amt == EmittedCents(a) * SubUnits IN
      /\ amt = MathMin(resp[a].dvr, req[a].S)
      /\ amt >= 0
      /\ amt <= req[a].S

\* C1 (amended): the emitted fixed amount is min(R, S) written with two
\* decimals: it is never negative, lies within half a cent of min(R, S), equals
\* min(R, S) when that is a whole number of cents, and never exceeds S when S is
\* a whole number of cents.
C1_EmittedIsMinToTheCent ==
  \A a \in Attempts :
    Emitted(a) =>
      LET amt == EmittedCents(a) * SubUnits
          m   == MathMin(resp[a].dvr, req[a].S)
      IN  /\ amt >= 0
          /\ 2 * Abs(amt - m) <= SubUnits
          /\ m % SubUnits = 0 => amt = m
          /\ req[a].S % SubUnits = 0 => amt <= req[a].S

\* C1 witness: the redeem proxy returned more than the subtotal and a discount
\* of the subtotal was emitted.
C1_Witness ==
  \E a \in Attempts :
    /\ Emitted(a)
    /\ resp[a].dvr > req[a].S
    /\ req[a].S % SubUnits = 0
    /\ EmittedCents(a) * SubUnits = req[a].S

\* C2 (as stated): POST redeem-points creates no discount code unless the
\* customer has points and the account needs no OTP or an OTP was verified in
\* the same attempt.
C2_NoCodeWithoutPointsAndOtp ==
  \A k \in codes :
    k.route = "redeem-points" =>
      /\ acct.hasPoints
      /\ acct.otp = "n" \/ loc[k.att].votp = "verified"

\* C3: on the checkout path a points lookup that reports otpFlag "y" ends in
\* no operations, and the redeem proxy is never called in that evaluation.
C3_OtpFlagMeansNoDiscount ==
  \A a \in Attempts :
    (Checkout(a) /\ pts[a].kind = "json" /\ pts[a].otpFlag = "y") =>
      /\ pc[a] = "done"
      /\ result[a].ops = <<>>
      /\ resp[a].kind = "none"
      /\ RedeemCallsOf(a) = {}

\* C3 witness: an evaluation that only the OTP flag stopped.
C3_Witness ==
  \E a \in Attempts :
    /\ Checkout(a) /\ pc[a] = "done"
    /\ pts[a].kind = "json" /\ ~pts[a].err /\ pts[a].phone /\ pts[a].balance > 0
    /\ pts[a].otpFlag = "y"
    /\ result[a].msg = "OtpRequired"

\* C4: within one attempt, on either path, the provider redeem call is sent at
\* most once, whatever fails.
C4_RedeemAtMostOnce ==
  \A a \in Attempts : Cardinality(RedeemCallsOf(a)) <= 1

\* C4 witness: an interactive attempt whose redeem call was made and whose
\* discount creation then failed.
C4_Witness ==
  \E a \in Attempts :
    /\ req[a].route = "redeem-points" /\ pc[a] = "done"
    /\ result[a].msg \in {"DiscountCreationFailed", "RedemptionFailed", "Exception"}
    /\ Cardinality(RedeemCallsOf(a)) = 1

\* The handler of attempt a came as far as its OTP step with a provider that
\* answers: its own checks (session, payload, configuration, phone) passed and
\* the verify-OTP call, where one was sent, was answered with a JSON body.
OtpStepReached(a) ==
  \/ req[a].route \in {"redeem-points", "verify-otp"} /\ loc[a].votp \in {"refused", "verified"}
  \/ /\ req[a].route = "loyalty-verify-otp"
     /\ pc[a] = "done"
     /\ result[a].msg \notin {"Unauthorized", "MissingParameters", "NotConfigured"}

\* C5 (as stated): on the interactive path a wrong OTP for an account with
\* otpFlag "y" is answered with the invalid-OTP error, no provider redeem call
\* is made and no discount code is created.
C5_WrongOtpIsOtpInvalid ==
  \A a \in Attempts :
    (Interactive(a) /\ req[a].otp = "wrong" /\ acct.otp = "y" /\ OtpStepReached(a)) =>
      /\ pc[a] = "done"
      /\ result[a].status = 400 /\ result[a].msg = "InvalidOtp"
      /\ RedeemCallsOf(a) = {}
      /\ CodesOf(a) = {}

\* The part of C5 that every interactive route keeps: a wrong OTP for an
\* account with otpFlag "y" leads to no provider redeem call and no code.
WrongOtpNeverRedeems ==
  \A a \in Attempts :
    (Interactive(a) /\ req[a].otp = "wrong" /\ acct.otp = "y") =>
      /\ RedeemCallsOf(a) = {}
      /\ CodesOf(a) = {}
      /\ pc[a] \notin {"rp_redeem", "rp_discount", "vo_redeem", "vo_discount"}

\* An error kind of the checkout path has occurred in attempt a.
FnErrorSeen(a) ==
  \/ req[a].customer = 0
  \/ ~req[a].urlMf
  \/ pts[a].kind \in {"throw", "http"}
  \/ pts[a].kind = "json" /\ ( \/ pts[a].err
                               \/ ~pts[a].phone
                               \/ pts[a].balance = Missing \/ pts[a].balance <= 0
                               \/ pts[a].otpFlag = "y" )
  \/ resp[a].kind \in {"throw", "http"}
  \/ resp[a].kind = "json" /\ (resp[a].err \/ MathMin(resp[a].dvr, req[a].S) <= 0)

\* C6: on the checkout path every error kind ends the evaluation with an empty
\* operations list: the function returns, and returns no discount after an error.
C6_ErrorsCollapseToNoDiscount ==
  \A a \in Attempts :
    (Checkout(a) /\ FnErrorSeen(a)) =>
      /\ result[a].ops = <<>>
      /\ pc[a] \in {"done", "fn_redeem_resp"}
      /\ pc[a] = "done" =>
           result[a].msg \in {"NoCustomer", "NotConfigured", "ProviderUnavailable",
                              "ProviderRejected", "NoBalance", "OtpRequired", "ZeroDiscount"}

\* C6 witness: the provider was called through the proxy, failed, and the
\* evaluation ended with no operations.
C6_Witness ==
  \E a \in Attempts :
    /\ Checkout(a) /\ pc[a] = "done"
    /\ RedeemCallsOf(a) # {}
    /\ resp[a].kind = "http"
    /\ result[a].ops = <<>>

\* C7 (as stated, up to the two-decimal formatting): the amount of the code that
\* POST redeem-points creates is min(provider amount, bill_amt).
C7_CodeAmountCapped ==
  \A k \in codes :
    k.route = "redeem-points" =>
      2 * Abs(k.amount * SubUnits - MathMin(loc[k.att].R, req[k.att].S)) <= SubUnits

\* C8: every discount code an interactive redemption creates has usageLimit 1,
\* applies once per customer, and selects only the customer of the request.
C8_CodesSingleUseOneCustomer ==
  \A k \in codes :
    /\ k.usageLimit = 1
    /\ k.appliesOncePerCustomer
    /\ k.customers = IF k.route = "redeem-points"
                       THEN {Gid(req[k.att].customer)}
                       ELSE {GidTail(Gid(req[k.att].customer))}

\* C8 witness: POST redeem-points created a code.
C8_Witness ==
  \E k \in codes : k.route = "redeem-points" /\ pc[k.att] = "done" /\ result[k.att].code = k.code

\* C9 (as stated): two distinct attempts never send the same invoice reference
\* to the provider.
C9_InvoiceRefsDistinct ==
  \A i, j \in DOMAIN redeemLog :
    redeemLog[i][1] # redeemLog[j][1] => redeemLog[i][2] # redeemLog[j][2]

\* C10: on the checkout path a points lookup that reports a balance of 0, or a
\* missing or negative one, ends in no operations and the redeem proxy is never
\* called.
C10_NoBalanceMeansNoDiscount ==
  \A a \in Attempts :
    (Checkout(a) /\ pts[a].kind = "json" /\ (pts[a].balance = Missing \/ pts[a].balance <= 0)) =>
      /\ pc[a] = "done"
      /\ result[a].ops = <<>>
      /\ resp[a].kind = "none"
      /\ loc[a].invNo = <<>>
      /\ RedeemCallsOf(a) = {}

\* C10 witness: an evaluation that only the zero balance stopped.
C10_Witness ==
  \E a \in Attempts :
    /\ Checkout(a) /\ pc[a] = "done"
    /\ pts[a].kind = "json" /\ ~pts[a].err /\ pts[a].phone /\ pts[a].otpFlag = "n"
    /\ pts[a].balance = 0
    /\ result[a].msg = "NoBalance"

\* C11 (as stated): on both paths a capped amount min(R, bill or subtotal) that
\* is zero or negative ends the attempt without a discount: no candidate is
\* emitted at checkout and no code is created by POST redeem-points.
C11_NonPositiveCapMeansNoDiscount ==
  /\ \A a \in Attempts : Emitted(a) => MathMin(resp[a].dvr, req[a].S) > 0
  /\ \A k \in codes :
       k.route = "redeem-points" => MathMin(loc[k.att].R, req[k.att].S) > 0

\* The provider answered the verify-OTP call of attempt a.
VerifyCallAnswered(a) == loc[a].votp \in {"http", "refused", "verified"}

\* C12 (as stated): while the stored configuration of the shop is absent, not
\* enabled or without the provider token, no route calls the provider.
C12_NotConfiguredMeansNoProviderCall ==
  config \in {"absent", "notConfigured", "noBillFreeToken"} =>
    \A a \in Attempts :
      req[a].shop = ShopDomain => (RedeemCallsOf(a) = {} /\ ~VerifyCallAnswered(a) /\ ~loc[a].asked)

\* No provider call was made on behalf of attempt a, and no code was created.
ProviderUntouched(a) ==
  /\ RedeemCallsOf(a) = {}
  /\ ~VerifyCallAnswered(a)
  /\ ~loc[a].asked
  /\ CodesOf(a) = {}

\* The checkout part of C13: without a customer, or with a points answer that
\* carries no phone number, the evaluation ends with no operations.
CheckoutWithoutIdentityEnds(a) ==
  (Checkout(a) /\ (req[a].customer = 0 \/ (pts[a].kind = "json" /\ ~pts[a].phone))) =>
    /\ pc[a] = "done"
    /\ result[a].ops = <<>>
    /\ resp[a].kind = "none"
    /\ ProviderUntouched(a)

\* C13 (as stated): a null customer id or a customer without a phone number
\* never reaches the provider; checkout returns no operations, POST
\* redeem-points answers with the missing-phone failure, and the points lookup
\* answers 200 with balance 0 and the add-a-phone-number message.
C13_NoIdentityIsMissingPhone ==
  \A a \in Attempts :
    /\ CheckoutWithoutIdentityEnds(a)
    /\ (req[a].route = "redeem-points" /\ req[a].auth
          /\ (req[a].customer = 0 \/ loc[a].phone = "none")) =>
         /\ pc[a] = "done"
         /\ result[a].status = 400 /\ result[a].msg = "MissingPhone"
         /\ ProviderUntouched(a)
    /\ (req[a].route = "points" /\ (req[a].customer = 0 \/ loc[a].phone = "none")) =>
         /\ result[a].status = 200 /\ result[a].msg = "AddPhoneNumber"
         /\ pts[a].balance = 0
         /\ ProviderUntouched(a)

\* C13 (amended): as above for a customer without a phone number; a null
\* customer id is refused with a 400 for the missing parameter, by POST
\* redeem-points and by the points lookup alike, and reaches the provider
\* no more than a missing phone does.
C13_NoIdentityNeverReachesProvider ==
  \A a \in Attempts :
    /\ CheckoutWithoutIdentityEnds(a)
    /\ (req[a].route = "redeem-points" /\ req[a].auth /\ req[a].customer = 0) =>
         /\ pc[a] = "done"
         /\ result[a].status = 400 /\ result[a].msg = "MissingParameters"
         /\ ProviderUntouched(a)
    /\ (req[a].route = "redeem-points" /\ loc[a].phone = "none") =>
         /\ pc[a] = "done"
         /\ result[a].status = 400 /\ result[a].msg = "MissingPhone"
         /\ ProviderUntouched(a)
    /\ (req[a].route = "points" /\ req[a].customer = 0) =>
         /\ result[a].status = 400 /\ result[a].msg = "MissingCustomer"
         /\ ProviderUntouched(a)
    /\ (req[a].route = "points" /\ loc[a].phone = "none") =>
         /\ result[a].status = 200 /\ result[a].msg = "AddPhoneNumber"
         /\ pts[a].kind = "json" /\ pts[a].balance = 0
         /\ ProviderUntouched(a)

\* C13 witness: POST redeem-points found no phone number for the customer and
\* answered with the missing-phone failure.
C13_Witness ==
  \E a \in Attempts :
    /\ req[a].route = "redeem-points" /\ pc[a] = "done"
    /\ req[a].customer # 0 /\ loc[a].phone = "none"
    /\ result[a].msg = "MissingPhone"

\* The external call attempt a is waiting for, by the position of its handler.
AwaitedCall(a) ==
  CASE pc[a] = "fn_points" -> "points"
    [] pc[a] \in {"fn_redeem", "fn_redeem_resp"} -> "redeem"
    [] pc[a] = "rp_customer" -> "customer"
    [] pc[a] \in {"rp_votp", "vo_votp"} -> "verifyOtp"
    [] pc[a] \in {"rp_redeem", "vo_redeem"} -> "redeem"
    [] pc[a] \in {"rp_discount", "vo_discount"} -> "createDiscount"
    [] OTHER -> "none"

\* The provider's redeem operation was asked for attempt a, or is being asked.
RedeemStarted(a) == RedeemCallsOf(a) # {} \/ AwaitedCall(a) = "redeem"

C15_EvaluationReturns ==
  \A a \in Attempts : (pc[a] = "fn_points") ~> (pc[a] = "done")

\* The scenario of C16: a configured shop, the discount configured with the
\* proxy URL and the shop domain, a customer, a cart worth something, and an
\* account with points that needs no OTP.
EndToEndScenario(a) ==
  /\ Checkout(a)
  /\ config = "ok"
  /\ req[a].customer # 0 /\ req[a].urlMf
  /\ req[a].variant = 2 /\ req[a].shopSrc = "metafield"
  /\ req[a].S > 0
  /\ acct = [otp |-> "n", hasPoints |-> TRUE]

\* C16 (as stated): end to end, in the scenario above, an evaluation ends with
\* the discount unless the platform or the provider failed (a 500 of the points
\* route) or the customer has no phone number.
C16_EndToEndDiscount ==
  \A a \in Attempts :
    (EndToEndScenario(a) /\ pc[a] = "done") =>
      \/ Emitted(a)
      \/ pts[a].status = 500
      \/ pts[a].status = 200 /\ ~pts[a].phone

\* Composed with this repository's points loader, no evaluation gets as far
\* as the redeem request.
NeverAsksRedeem ==
  \A a \in Attempts : pc[a] \notin {"fn_redeem", "fn_redeem_resp"} /\ redeemLog = <<>>

\* C17 (as stated): no discount code string is issued twice: the codes created
\* for two distinct redemptions differ.
C17_CodesNeverReissued ==
  \A k1, k2 \in codes : k1.att # k2.att => k1.code # k2.code

\* The platform answered the discount-creation mutation of attempt a with
\* validation errors.
PlatformRejected(a) == Interactive(a) /\ pc[a] = "done" /\ loc[a].platform = "userErrors"

\* C18 (as stated): when the platform's discount-creation mutation answers
\* with validation errors, the redemption fails, its answer carries those
\* validation errors, and no discount code is returned.
C18_RejectionCarriesUserErrors ==
  \A a \in Attempts :
    PlatformRejected(a) =>
      /\ result[a].status = 500
      /\ result[a].userErrors
      /\ result[a].code = <<>>

\* What holds of the code: the redemption fails and no code is returned.
RejectionReturnsNoCode ==
  \A a \in Attempts :
    PlatformRejected(a) => (result[a].status = 500 /\ result[a].code = <<>>)

\* The operation is an orderDiscountsAdd with one candidate, a fixed amount not
\* applied per line item, one orderSubtotal target without excluded lines, and
\* selection strategy First.
SingleOrderDiscount(op) ==
  /\ DOMAIN op = {"orderDiscountsAdd"}
  /\ Len(op.orderDiscountsAdd.candidates) = 1
  /\ op.orderDiscountsAdd.selectionStrategy = "First"
  /\ LET cand == op.orderDiscountsAdd.candidates[1] IN
       /\ DOMAIN cand.value = {"fixedAmount"}
       /\ ~cand.value.fixedAmount.appliesToEachLineItem
       /\ Len(cand.targets) = 1
       /\ DOMAIN cand.targets[1] = {"orderSubtotal"}
       /\ cand.targets[1].orderSubtotal.excludedCartLineIds = <<>>

\* C19: every result of the checkout function holds at most one operation, and
\* the operation it holds is a single order-level fixed-amount discount on the
\* order subtotal with selection strategy First.
C19_AtMostOneOrderDiscount ==
  \A a \in Attempts :
    Checkout(a) =>
      /\ Len(result[a].ops) <= 1
      /\ Len(result[a].ops) = 1 => SingleOrderDiscount(result[a].ops[1])

\* A finished evaluation whose result holds an operation.
C19_Witness ==
  \E a \in Attempts :
    /\ Checkout(a) /\ pc[a] = "done"
    /\ Len(result[a].ops) = 1
    /\ SingleOrderDiscount(result[a].ops[1])

\* C20 (as stated): after a wrong OTP was submitted in the account widget the
\* step is still "otp-sent" (never "success"), the failure is shown, and the
\* customer can still submit another code.
C20_WrongOtpCanBeRetried ==
  widget.verifyOutcome = "rejected" =>
    /\ widget.redemptionStep = "otp-sent"
    /\ widget.errorMessage # "none"
    /\ OtpFormShown(widget)

\* What holds of the widget: the step stays "otp-sent" and the failure is shown.
RejectedCodeStaysPending ==
  widget.verifyOutcome = "rejected" =>
    (widget.redemptionStep = "otp-sent" /\ widget.errorMessage # "none")

\* C21: no step of a redemption attempt writes the stored merchant
\* configuration.
C21_ConfigurationReadOnly == [][config' = config]_vars

\* An attempt that read the configuration and went on to the end.
C21_Witness ==
  \E a \in Attempts :
    /\ pc[a] = "done"
    /\ req[a].route \in {"redeem-points", "send-otp", "checkout"}
    /\ result[a].msg \in {"Created", "Sent", "NotConfigured"}

\* The provider was asked to dispatch an OTP for attempt a.
DispatchAttempted(a) == req[a].route = "send-otp" /\ pc[a] = "done" /\ loc[a].cotp # "none"

\* The response marks failure: a non-2xx status or a truthy error field.
MarksFailure(r) == r.status # 200 \/ r.error

\* C24 (as stated): the response of POST send-otp marks failure exactly when
\* the provider dispatch failed.
C24_SendOtpPassFail ==
  \A a \in Attempts :
    DispatchAttempted(a) => (MarksFailure(result[a]) <=> loc[a].cotp # "sent")

\* What holds of the code: the status alone tells whether the dispatch failed.
SendOtpStatusTellsDispatch ==
  \A a \in Attempts :
    DispatchAttempted(a) => (result[a].status # 200 <=> loc[a].cotp # "sent")

\* The points loader asked the provider for attempt a and the call ended as
\* `how`.
BalanceCallEnded(a, how) ==
  req[a].route = "points" /\ pc[a] = "done" /\ loc[a].balanceCall = how

\* C22: a non-2xx provider answer makes the balance lookup fail as
\* ProviderUnavailable, a set error flag as ProviderRejected; either way the
\* points endpoint answers with an error that reports no positive balance, and
\* a checkout evaluation that gets such an answer ends without a discount and
\* without a redeem call.
C22_FailedLookupReportsNoBalance ==
  \A a \in Attempts :
    /\ BalanceCallEnded(a, "http") => result[a].msg = "ProviderUnavailable"
    /\ BalanceCallEnded(a, "error") => result[a].msg = "ProviderRejected"
    /\ (BalanceCallEnded(a, "http") \/ BalanceCallEnded(a, "error")) =>
         (result[a].status = 500 /\ pts[a].kind = "http" /\ pts[a].err /\ pts[a].balance <= 0)
    /\ (Checkout(a) /\ pts[a].kind = "http") =>
         (pc[a] = "done" /\ result[a].ops = <<>> /\ RedeemCallsOf(a) = {})

\* The provider set its error flag and the loader answered.
C22_Witness ==
  \E a \in Attempts :
    BalanceCallEnded(a, "error") /\ result[a].msg = "ProviderRejected" /\ pts[a].status = 500

\* Attempt a is the points request of the account widget, answered.
WidgetPointsRequest(a) ==
  req[a].route = "points" /\ req[a].auth /\ req[a].customer # 0 /\ pc[a] = "done"

\* C23 (as stated): the points request the account widget sends is accepted
\* by the points loader of a configured shop.
C23_WidgetPointsRequestAccepted ==
  \A a \in Attempts :
    (WidgetPointsRequest(a) /\ config = "ok") =>
      result[a].msg \notin {"MissingCustomer", "NotConfigured"}

\* What holds of the code: the widget's request never gets to the provider.
WidgetRequestNeverAsksProvider ==
  \A a \in Attempts :
    WidgetPointsRequest(a) =>
      (~loc[a].asked /\ result[a].status = 400 /\ widget.errorMessage = "CouldNotLoad")

\* The request went through verifyRequestAndGetBody.
FlowVerified == flow.pc # "idle"

\* The HMAC header is present and well formed but is not the HMAC of the body.
HmacMismatch ==
  /\ FlowVerified /\ flow.secretSet /\ flow.body # ""
  /\ flow.header \in {Hmac(b) : b \in FlowBodies} /\ flow.header # Hmac(flow.body)

\* C25 (as stated): verifyRequestAndGetBody returns the raw body only when the
\* header is the HMAC of the body; a mismatching header gives 401 'Invalid
\* HMAC signature', a missing header 401, an empty body 400, a missing secret
\* 500.
C25_HmacVerdicts ==
  /\ flow.returned # "" => (flow.returned = flow.body /\ flow.header = Hmac(flow.body))
  /\ HmacMismatch => (flow.status = 401 /\ flow.msg = "InvalidHmacSignature")
  /\ (FlowVerified /\ ~flow.secretSet) => flow.status = 500
  /\ (FlowVerified /\ flow.secretSet /\ flow.header = NoHeader) => flow.status = 401
  /\ (FlowVerified /\ flow.secretSet /\ flow.header # NoHeader /\ flow.body = "") =>
       flow.status = 400

\* What holds of the code: the same with a mismatching header refused, under
\* whatever status.
HmacMismatchRefused ==
  /\ flow.returned # "" => (flow.returned = flow.body /\ flow.header = Hmac(flow.body))
  /\ HmacMismatch => (flow.pc = "done" /\ flow.status \in {400, 401} /\ flow.adminQueries = 0)
  /\ (FlowVerified /\ ~flow.secretSet) => flow.status = 500
  /\ (FlowVerified /\ flow.secretSet /\ flow.header = NoHeader) => flow.status = 401
  /\ (FlowVerified /\ flow.secretSet /\ flow.header # NoHeader /\ flow.body = "") =>
       flow.status = 400

\* C26: the Flow action handler queries the platform only for a request whose
\* HMAC verified and whose payload passed the schema, and posts the invoice at
\* most once, only after order and customer were fetched and with the
\* provider's URL and token set.
C26_FlowCallsGuarded ==
  /\ flow.adminQueries > 0 =>
       (flow.secretSet /\ flow.header = Hmac(flow.body) /\ FlowSchemaAccepts(flow.body))
  /\ flow.invoicePosts > 0 =>
       (flow.adminQueries > 0 /\ flow.answer = "data" /\ flow.envSet)
  /\ flow.invoicePosts <= 1
  /\ flow.adminQueries <= 1

\* A request whose invoice was posted.
C26_Witness == flow.pc = "done" /\ flow.invoicePosts = 1 /\ flow.msg = "InvoiceSent"

\* The provider's redeem call of POST redeem-points attempt a succeeded: the
\* handler went on to name the discount code.
RpRedeemed(a) == req[a].route = "redeem-points" /\ loc[a].code # <<>>

\* C27 (as stated): a POST redeem-points attempt whose provider redeem call
\* succeeded ends with a success response carrying a discount code, and an
\* attempt that ends with an error response made no successful redeem call.
C27_NoDebitWithoutCode ==
  \A a \in Attempts :
    (req[a].route = "redeem-points" /\ pc[a] = "done") =>
      /\ RpRedeemed(a) => (result[a].status = 200 /\ result[a].code # <<>>)
      /\ result[a].status # 200 => ~RpRedeemed(a)

\* The customer a redeem call or a created code of POST redeem-points is for.
RpRedeemedFor(i) == redeemLog[i][2][2]

\* C28 (as stated): two POST redeem-points requests carrying the same session
\* token never redeem points of, or create codes for, different customers.
C28_SameTokenSameCustomer ==
  /\ \A k1, k2 \in codes :
       ( /\ k1.route = "redeem-points" /\ k2.route = "redeem-points"
         /\ req[k1.att].shop = req[k2.att].shop
         /\ req[k1.att].sub = req[k2.att].sub ) => k1.customers = k2.customers
  /\ \A i, j \in DOMAIN redeemLog :
       ( /\ req[redeemLog[i][1]].route = "redeem-points"
         /\ req[redeemLog[j][1]].route = "redeem-points"
         /\ req[redeemLog[i][1]].shop = req[redeemLog[j][1]].shop
         /\ req[redeemLog[i][1]].sub = req[redeemLog[j][1]].sub ) =>
           RpRedeemedFor(i) = RpRedeemedFor(j)

\* A handler of the widget finishes in this step.
HandlerFinishes == widget.call # "none" /\ widget'.call = "none"

\* C29: redemptionStep becomes "otp-sent" only on an ok send-otp response and
\* "success" only on a redeem-points response with success; a failed or
\* errored request leaves the step as it was, and isRedeeming is false again
\* when a handler has finished.
C29_StepsFollowResponses ==
  [][ /\ (widget'.redemptionStep = "otp-sent" /\ widget.redemptionStep # "otp-sent") =>
           (widget.call = "sendOtp" /\ HandlerFinishes /\ widget'.answer = "ok")
      /\ (widget'.redemptionStep = "success" /\ widget.redemptionStep # "success") =>
           (widget.call \in {"direct", "verify"} /\ HandlerFinishes
              /\ widget'.answer = "success")
      /\ (HandlerFinishes /\ widget'.answer \notin {"ok", "success"}) =>
           widget'.redemptionStep = widget.redemptionStep
      /\ HandlerFinishes => ~widget'.isRedeeming ]_vars

\* The OTP form is up after send-otp answered ok.
C29_Witness ==
  /\ widget.redemptionStep = "otp-sent" /\ widget.answer = "ok"
  /\ widget.call = "none" /\ ~widget.isRedeeming

\* C30: with otpFlag "y" no redeem-points request goes out without an
\* otp_code; a direct redemption starts only with otpFlag other than "y", a
\* verification only in step "otp-sent" with a code typed in; and no request
\* starts while points <= 0 or an error message is set.
C30_RedeemRequestsGuarded ==
  [][ (widget.call = "none" /\ widget'.call # "none") =>
        /\ widget.points > 0 /\ widget.errorMessage = "none"
        /\ widget'.call = "direct" => widget.otpFlag # "y"
        /\ widget'.call = "verify" =>
             (widget.redemptionStep = "otp-sent" /\ widget'.sentOtp # "")
        /\ (widget'.call \in {"direct", "verify"} /\ widget.otpFlag = "y") =>
             widget'.sentOtp # "" ]_vars

\* A verification request is out for an account that needs an OTP.
C30_Witness ==
  widget.call = "verify" /\ widget.otpFlag = "y" /\ widget.sentOtp # "" /\ widget.points > 0

====
